---- MODULE Spec2Model ----
(***************************************************************************)
(* State-machine model of public/chatbot.js: the chatbot client that       *)
(* starts a conversation, sends user messages, polls chatbot activities    *)
(* and resumes interrupted requests after a page reload.                   *)
(*                                                                         *)
(* One page session is a run of the script between two page loads.  The    *)
(* sessionStorage survives a reload; the script's globals, its pending     *)
(* fetches/timers and the DOM do not.                                      *)
(*                                                                         *)
(* The functions of the script are operators on a "world" record           *)
(*   [mem, store, flows, messagesDiv, sentIds, hist, ev]                   *)
(* so that a handler that calls other functions synchronously is one       *)
(* action.  Every await of the script is a separate step.                  *)
(***************************************************************************)
EXTENDS Integers, Sequences, FiniteSets, TLC

VARIABLES
  phase,        \* "loaded": script evaluated, surveyDataInitialized not yet fired; "running"
  mem,          \* the script's global variables (chatbot.js:41-48)
  store,        \* sessionStorage
  flows,        \* suspended async functions and pending setTimeout callbacks
  messagesDiv,  \* children of the #messages element, in order
  clock,        \* number of client-side message ids generated so far
  sentIds,      \* history: the clientSideMsgIds that send requests have carried
  hist,         \* history: dropped submissions, notified activities, interface opened
  ev            \* what the last step did: requests issued, merges, notifications

vars == <<phase, mem, store, flows, messagesDiv, clock, sentIds, hist, ev>>

(***************************************************************************)
(* Bounds and value domains                                                *)
(***************************************************************************)
MaxUserMsgs == 2      \* user messages submitted over all sessions
MaxWatermark == 2     \* watermarks a poll response can carry: 1..MaxWatermark

Null == "null"                    \* JavaScript null for string-valued fields
NoWatermark == 0                  \* null / absent watermark (falsy)
NoMsgId == 0                      \* null clientSideMsgId
ConvIds == {"c1", "c2"}           \* conversation ids the server can return
BotActIds == {"A1", "A2"}         \* ids of the chatbot's message activities
UserActIds == {"A3", "A4"}        \* ids the server assigns to user messages
ActIds == BotActIds \cup UserActIds
FinalActIds == {"A2", "A4"}       \* activities whose channelData has finalState
UserTexts == {"hi", "bye"}        \* trimmed, non-empty input texts
BotTexts == {"hello"}             \* texts of chatbot activities

\* What the user types for the n-th submission: consecutive submissions have
\* different texts.
TypedText(n) == IF n % 2 = 1 THEN "hi" ELSE "bye"

\* The activities the server can report (chatbot.js:267-284 reads these
\* fields).  An activity id names one activity of the conversation, so its
\* author and its channelData go with the id.  finalState stands for
\* act.channelData && act.channelData.finalState.
MessageActivities ==
  {[id |-> id, type |-> "message",
    from |-> (IF id \in UserActIds THEN "user1" ELSE "bot1"),
    text |-> text, finalState |-> (id \in FinalActIds)] : id \in ActIds, text \in BotTexts}
OtherActivities ==
  [id : {"T1"}, type : {"typing"}, from : {"bot1"}, text : BotTexts, finalState : {FALSE}]
Activities == MessageActivities \cup OtherActivities

RECURSIVE SeqsUpTo(_, _)
SeqsUpTo(S, n) ==
  IF n = 0 THEN {<<>>}
  ELSE LET shorter == SeqsUpTo(S, n - 1)
       IN shorter \cup {Append(s, x) : s \in {t \in shorter : Len(t) = n - 1}, x \in S}

\* A poll response carries at most two message activities, or one activity
\* of another type.
Batches == SeqsUpTo(MessageActivities, 2) \cup {<<a>> : a \in OtherActivities}

\* The parsed body of a successful /getactivities response.  hasActivities is
\* FALSE when the body has no (or a falsy) activities field; its watermark
\* is then never read.
PollData ==
  [hasActivities : {TRUE}, activities : Batches, watermark : 0..MaxWatermark]
  \cup [hasActivities : {FALSE}, activities : {<<>>}, watermark : {NoWatermark}]

\* How a send attempt can end without an id (chatbot.js:414-442):
\*   "NetworkError": fetch rejects with a TypeError naming NetworkError (the
\*                   request may have reached the server, the response is lost);
\*   "Error":        any other rejection, a status that is not ok, a body that
\*                   does not parse, or a body with neither id nor in_progress;
\*   "in_progress":  the body says status "in_progress" (no error is thrown).
SendFailures == {"NetworkError", "Error", "in_progress"}

(***************************************************************************)
(* The world record                                                        *)
(***************************************************************************)
World == [mem |-> mem, store |-> store, flows |-> flows,
          messagesDiv |-> messagesDiv, sentIds |-> sentIds, hist |-> hist, ev |-> ev]

Becomes(w) ==
  /\ mem' = w.mem
  /\ store' = w.store
  /\ flows' = w.flows
  /\ messagesDiv' = w.messagesDiv
  /\ sentIds' = w.sentIds
  /\ hist' = w.hist
  /\ ev' = w.ev

\* ev records, for the step just taken: the handler or continuation that ran
\* (op), the requests it issued, a summary of every response it merged with
\* processActivities, the number of dialogueFinishedEvent it dispatched and
\* the acknowledgement (clientSideMsgId, id) a send response delivered;
\* further the states it wrote to the 'conversation' item, in order (saved),
\* the ids of the activities it dispatched dialogueFinishedEvent for
\* (notified) and the conversationId a start response delivered, with whether
\* a request of that start flow had failed before (started).
NewEv(op) ==
  [op |-> op, requests |-> <<>>, merged |-> <<>>, finished |-> 0, acked |-> <<>>,
   saved |-> <<>>, notified |-> <<>>, started |-> <<>>]

\* hist records, over all page sessions: the clientSideMsgIds of the messages
\* submitted while sendInProgress or pollInProgress was true (droppedIds),
\* the ids of the activities a dialogueFinishedEvent was dispatched for
\* (notifiedIds), whether the chatbotInterfaceOpened event has occurred and
\* whether a send flow has ended with an id and no poll request has been
\* issued since (pollOwed).
\* hist.watch, fixed by the initial state, names the observations a run
\* records beyond those every run records: "saved" (ev.saved), "notified"
\* (ev.notified, hist.notifiedIds), "retried" (the mark of a start flow that
\* one of its requests has failed) and "owed" (hist.pollOwed).  The script
\* reads none of them, so the script's behaviour is the same in every run.
NoHist ==
  [watch |-> {}, droppedIds |-> {}, notifiedIds |-> {}, interfaceOpened |-> FALSE,
   pollOwed |-> FALSE]

Watching(w, what) == what \in w.hist.watch

Begin(op) == [World EXCEPT !.ev = NewEv(op)]

\* A fetch() call: the request leaves with the body built at that moment.
fetch(w, req) ==
  [w EXCEPT !.ev.requests = Append(@, req),
            !.sentIds = IF req.kind = "send" THEN @ \cup {req.clientSideMsgId} ELSE @,
            !.hist.pollOwed = IF req.kind = "poll" THEN FALSE ELSE @]

RemoveAt(s, i) == SubSeq(s, 1, i - 1) \o SubSeq(s, i + 1, Len(s))

(***************************************************************************)
(* Conversation state management                                          *)
(***************************************************************************)
\* store.conversation is <<>> when sessionStorage holds no 'conversation'
\* item and <<state>> otherwise.  JSON.stringify/JSON.parse of a state is
\* lossless: its fields are null, strings, numbers, arrays and plain objects.
loadConversationState(w) ==
  IF w.store.conversation # <<>>
  THEN w.store.conversation[1]
  ELSE [conversationId |-> w.mem.conversationId, watermark |-> w.mem.watermark,
        messages |-> <<>>, processedActivities |-> {}]

saveConversationState(w, state) ==
  [w EXCEPT !.store.conversation = <<state>>,
            !.ev.saved = IF Watching(w, "saved") THEN Append(@, state) ELSE @]

addMessage(w, text, from) ==
  [w EXCEPT !.messagesDiv = Append(@, [text |-> text, from |-> from])]

\* Mutant: the new message replaces the list instead of being appended.
addMessageToState_replaces(w, text, from, activityId, clientSideMsgId) ==
  LET state == loadConversationState(w)
      msg == [text |-> text, from |-> from, activityId |-> activityId,
              clientSideMsgId |-> clientSideMsgId]
  IN saveConversationState(w, [state EXCEPT !.messages = <<msg>>])

addMessageToState(w, text, from, activityId, clientSideMsgId) ==
  LET state == loadConversationState(w)
      msg == [text |-> text, from |-> from, activityId |-> activityId,
              clientSideMsgId |-> clientSideMsgId]
  IN saveConversationState(w, [state EXCEPT !.messages = Append(@, msg)])

\* Array.prototype.find: index of the first user message with this
\* clientSideMsgId, 0 when there is none.
findUserMessage(messages, clientSideMsgId) ==
  LET hits == {i \in 1..Len(messages) :
                 messages[i].from = "user" /\ messages[i].clientSideMsgId = clientSideMsgId}
  IN IF hits = {} THEN 0 ELSE CHOOSE i \in hits : \A j \in hits : i <= j

\* Mutant: the activityId is set on the message but not added to
\* processedActivities.
linkUserMessageWithActivityId_noProcessed(w, activityId, clientSideMsgId) ==
  LET state == loadConversationState(w)
      i == findUserMessage(state.messages, clientSideMsgId)
  IN IF i # 0
     THEN saveConversationState(w, [state EXCEPT !.messages[i].activityId = activityId])
     ELSE saveConversationState(w, state)

\* Mutant: the id is added to processedActivities but the message keeps its
\* activityId.
linkUserMessageWithActivityId_noLink(w, activityId, clientSideMsgId) ==
  LET state == loadConversationState(w)
      i == findUserMessage(state.messages, clientSideMsgId)
  IN IF i # 0
     THEN saveConversationState(w,
            [state EXCEPT !.processedActivities = @ \cup {activityId}])
     ELSE saveConversationState(w, state)

linkUserMessageWithActivityId(w, activityId, clientSideMsgId) ==
  LET state == loadConversationState(w)
      i == findUserMessage(state.messages, clientSideMsgId)
  IN IF i # 0
     THEN saveConversationState(w,
            [state EXCEPT !.messages[i].activityId = activityId,
                          !.processedActivities = @ \cup {activityId}])
     ELSE saveConversationState(w, state)

(***************************************************************************)
(* Requests                                                                *)
(***************************************************************************)
Request(kind, conversationId, watermark, text, clientSideMsgId) ==
  [kind |-> kind, conversationId |-> conversationId, watermark |-> watermark,
   text |-> text, clientSideMsgId |-> clientSideMsgId]

startRequest == Request("start", Null, NoWatermark, Null, NoMsgId)
pollRequest(w) == Request("poll", w.mem.conversationId, w.mem.watermark, Null, NoMsgId)
sendRequest(w, text, clientSideMsgId) ==
  Request("send", w.mem.conversationId, NoWatermark, text, clientSideMsgId)

(***************************************************************************)
(* Chatbot activity retrieval                                              *)
(***************************************************************************)
\* getActivities up to its first await: the guard, the flag and the first fetch.
\* Mutant: getActivities without its guard.
pollBlocked_never(w) == FALSE

pollBlocked(w) == w.mem.pollInProgress

getActivities(w) ==
  IF pollBlocked(w) THEN w
  ELSE LET w1 == [w EXCEPT !.mem.pollInProgress = TRUE, !.store.pollInProgress = TRUE]
           w2 == fetch(w1, pollRequest(w1))
       IN [w2 EXCEPT !.flows.poll = Append(@, [pc |-> "fetch"])]

\* act.from.id === 'user1' ? 'user' : 'bot'
authorOf(act) == IF act.from = "user1" THEN "user" ELSE "bot"

dispatchDialogueFinished(w) ==
  [w EXCEPT !.mem.finalStateReached = TRUE, !.store.finalStateReached = TRUE,
            !.ev.finished = @ + 1]

\* The dialogueFinishedEvent just dispatched was caused by activity id.
observeFinished(w, id) ==
  IF Watching(w, "notified")
  THEN [w EXCEPT !.ev.notified = Append(@, id), !.hist.notifiedIds = @ \cup {id}]
  ELSE w

\* Mutant: the watermark of the response is adopted without the test.
adoptWatermark_unguarded(current, received) == received

\* if (data.watermark) watermark = data.watermark
adoptWatermark(current, received) ==
  IF received # NoWatermark THEN received ELSE current

\* One turn of data.activities.forEach.  acc = [w, state, newMessages]: the
\* world, the local variable state and the local list newMessages.
\* Mutant: no test against processedActivities.
isNewMessage_noDedup(state, act) == act.type = "message"

isNewMessage(state, act) ==
  act.type = "message" /\ act.id \notin state.processedActivities

processActivity(acc, act) ==
  IF isNewMessage(acc.state, act)
  THEN LET merged ==
             IF authorOf(act) = "bot"
             THEN [w |-> addMessage(acc.w, act.text, "bot"),
                   state |-> [acc.state EXCEPT !.processedActivities = @ \cup {act.id}],
                   newMessages |-> Append(acc.newMessages,
                      [text |-> act.text, from |-> "bot", activityId |-> act.id,
                       clientSideMsgId |-> NoMsgId])]
             ELSE LET clientSideMsgId == acc.w.store.clientSideMsgId
                      w1 == saveConversationState(acc.w, acc.state)
                      w2 == linkUserMessageWithActivityId(w1, act.id, clientSideMsgId)
                  IN [w |-> w2, state |-> loadConversationState(w2),
                      newMessages |-> acc.newMessages]
       IN IF act.finalState
          THEN [merged EXCEPT !.w = observeFinished(dispatchDialogueFinished(@), act.id)]
          ELSE merged
  ELSE acc

RECURSIVE forEachActivity(_, _)
forEachActivity(acc, activities) ==
  IF activities = <<>> THEN acc
  ELSE forEachActivity(processActivity(acc, Head(activities)), Tail(activities))

\* What ev keeps of a merged response: the ids of its message activities and
\* its watermark.
mergeSummary(data) ==
  [ids |-> {data.activities[j].id :
              j \in {k \in 1..Len(data.activities) : data.activities[k].type = "message"}},
   watermark |-> data.watermark]

clearPollInProgress(w) ==
  [w EXCEPT !.mem.pollInProgress = FALSE, !.store.pollInProgress = FALSE]

processActivities(w, data) ==
  LET w0 == [w EXCEPT !.ev.merged = Append(@, mergeSummary(data))]
      acc == forEachActivity(
               [w |-> w0, state |-> loadConversationState(w0), newMessages |-> <<>>],
               data.activities)
      w1 == clearPollInProgress(acc.w)
      w2 == [w1 EXCEPT !.mem.watermark = adoptWatermark(@, data.watermark)]
      state == [acc.state EXCEPT !.watermark = w2.mem.watermark,
                                 !.conversationId = w2.mem.conversationId,
                                 !.messages = @ \o acc.newMessages]
  IN saveConversationState(w2, state)

\* The setTimeout callback of processInitialActivities stays pending in flows.timers.
processInitialActivities(w, data) ==
  [w EXCEPT !.mem.chatbotAlreadyOpened = TRUE, !.store.chatbotAlreadyOpened = TRUE,
            !.mem.pollInProgress = TRUE, !.store.pollInProgress = TRUE,
            !.flows.timers = Append(@, data)]

\* getActivities after res.json() resolved with data.
routeActivities(w, data) ==
  IF data.hasActivities
  THEN IF w.store.chatbotAlreadyOpened
       THEN processActivities(w, data)
       ELSE processInitialActivities(w, data)
  ELSE w

(***************************************************************************)
(* Conversation initialization                                             *)
(***************************************************************************)
startConversation(w) ==
  IF w.mem.startConvInProgress THEN w
  ELSE LET w1 == [w EXCEPT !.mem.startConvInProgress = TRUE,
                           !.store.startConvInProgress = TRUE]
           w2 == fetch(w1, startRequest)
       IN [w2 EXCEPT !.flows.start = Append(@, [pc |-> "fetch", retried |-> FALSE])]

(***************************************************************************)
(* User message processing                                                 *)
(***************************************************************************)
\* Mutant: the guard on sendInProgress is missing.
sendBlocked_pollOnly(w) == w.mem.pollInProgress

\* if (sendInProgress) return; if (pollInProgress) return;
sendBlocked(w) == w.mem.sendInProgress \/ w.mem.pollInProgress

sendUserMessage(w, text, clientSideMsgId) ==
  IF sendBlocked(w) THEN w
  ELSE LET w1 == [w EXCEPT !.mem.sendInProgress = TRUE, !.store.sendInProgress = TRUE,
                           !.store.clientSideMsgId = clientSideMsgId]
           w2 == fetch(w1, sendRequest(w1, text, clientSideMsgId))
       IN [w2 EXCEPT !.flows.send = Append(@,
             [pc |-> "fetch", text |-> text, clientSideMsgId |-> clientSideMsgId,
              error |-> "none"])]

collectUserMessage(w, text, clientSideMsgId) ==
  LET w1 == addMessage(w, text, "user")
      w2 == addMessageToState(w1, text, "user", Null, clientSideMsgId)
  IN sendUserMessage(w2, text, clientSideMsgId)

\* sendUserMessage after the loop: lines 444-446.
finishSend(w) ==
  getActivities([w EXCEPT !.mem.sendInProgress = FALSE, !.store.sendInProgress = FALSE])

(***************************************************************************)
(* Restoring and resuming after a page load                                *)
(***************************************************************************)
RECURSIVE addMessages(_, _)
addMessages(w, messages) ==
  IF messages = <<>> THEN w
  ELSE addMessages(addMessage(w, Head(messages).text, Head(messages).from), Tail(messages))

\* Mutant: the conversationId of the snapshot is not restored.
restoreConversation_noConversationId(w) ==
  LET conv == w.store.conversation[1]
      w1 == [w EXCEPT !.mem.watermark = conv.watermark]
  IN addMessages(w1, conv.messages)

restoreConversation(w) ==
  LET conv == w.store.conversation[1]
      w1 == [w EXCEPT !.mem.conversationId = conv.conversationId,
                      !.mem.watermark = conv.watermark]
  IN addMessages(w1, conv.messages)

\* The if (startConvInProgress) block, lines 545-548.
resumeStart(w) ==
  IF w.mem.startConvInProgress
  THEN startConversation([w EXCEPT !.mem.startConvInProgress = FALSE])
  ELSE w

\* Mutant: the message is sent again whether or not it has an activityId.
resumeSend_anyMessage(w) ==
  LET state == loadConversationState(w)
      clientSideMsgId == w.store.clientSideMsgId
      i == findUserMessage(state.messages, clientSideMsgId)
  IN IF i # 0
     THEN sendUserMessage([w EXCEPT !.mem.sendInProgress = FALSE],
                          state.messages[i].text, clientSideMsgId)
     ELSE [w EXCEPT !.mem.sendInProgress = FALSE, !.store.sendInProgress = FALSE]

\* The else-if (sendInProgress) block, lines 553-567.
resumeSend(w) ==
  LET state == loadConversationState(w)
      clientSideMsgId == w.store.clientSideMsgId
      i == findUserMessage(state.messages, clientSideMsgId)
  IN IF i # 0 /\ state.messages[i].activityId = Null
     THEN sendUserMessage([w EXCEPT !.mem.sendInProgress = FALSE],
                          state.messages[i].text, clientSideMsgId)
     ELSE [w EXCEPT !.mem.sendInProgress = FALSE, !.store.sendInProgress = FALSE]

\* The if (pollInProgress) ... else if (sendInProgress) statement, lines 549-567.
resumePollOrSend(w) ==
  IF w.mem.pollInProgress
  THEN getActivities([w EXCEPT !.mem.pollInProgress = FALSE])
  ELSE IF w.mem.sendInProgress THEN resumeSend(w) ELSE w

continueChatbotApiRequests(w) == resumePollOrSend(resumeStart(w))

initializeChatbotUi(w) ==
  IF w.store.conversation # <<>>
  THEN continueChatbotApiRequests(restoreConversation(w))
  ELSE startConversation(continueChatbotApiRequests(w))

\* Evaluation of the script's top level (lines 41-48) on a page load.
loadScript(s) ==
  [conversationId |-> Null, watermark |-> NoWatermark,
   chatbotAlreadyOpened |-> s.chatbotAlreadyOpened,
   pollInProgress |-> s.pollInProgress,
   sendInProgress |-> s.sendInProgress,
   startConvInProgress |-> s.startConvInProgress,
   finalStateReached |-> s.finalStateReached]

NoFlows == [start |-> <<>>, poll |-> <<>>, send |-> <<>>, timers |-> <<>>]

\* sessionStorage of a new browser session.  A flag that was never set reads
\* as null and one set to false reads as "false": both fail === 'true'.
EmptyStore ==
  [conversation |-> <<>>, chatbotAlreadyOpened |-> FALSE, pollInProgress |-> FALSE,
   sendInProgress |-> FALSE, startConvInProgress |-> FALSE,
   finalStateReached |-> FALSE, clientSideMsgId |-> NoMsgId]

(***************************************************************************)
(* Initial state and steps                                                 *)
(***************************************************************************)
FirstLoad ==
  /\ phase = "loaded"
  /\ store = EmptyStore
  /\ mem = loadScript(EmptyStore)
  /\ flows = NoFlows
  /\ messagesDiv = <<>>
  /\ clock = 0
  /\ sentIds = {}
  /\ ev = NewEv("load")

Init == FirstLoad /\ hist = NoHist

\* The page is reloaded: globals, pending fetches, timers and the DOM are
\* gone, sessionStorage stays, and the script's top level runs again.
Reload ==
  /\ phase' = "loaded"
  /\ mem' = loadScript(store)
  /\ flows' = NoFlows
  /\ messagesDiv' = <<>>
  /\ ev' = NewEv("load")
  /\ UNCHANGED <<store, clock, sentIds, hist>>

\* The surveyDataInitialized event fires.
InitializeChatbotUi ==
  /\ phase = "loaded"
  /\ phase' = "running"
  /\ Becomes(initializeChatbotUi(Begin("initializeChatbotUi")))
  /\ UNCHANGED clock

\* A click on the send button with a non-empty input.  generateClientSideMsgId
\* combines Date.now() with a random number: the model takes the ids of
\* different clicks to differ and numbers them.
CollectUserMessage(text) ==
  /\ phase = "running"
  /\ clock < MaxUserMsgs
  /\ text = TypedText(clock + 1)
  /\ clock' = clock + 1
  /\ LET w == [Begin("collectUserMessage") EXCEPT
                 !.hist.droppedIds = IF mem.sendInProgress \/ mem.pollInProgress
                                     THEN @ \cup {clock + 1} ELSE @]
     IN Becomes(collectUserMessage(w, text, clock + 1))
  /\ UNCHANGED phase

\* startConversation: fetch rejected or !res.ok -> catch, wait 2 s.
StartFails(i) ==
  /\ i \in 1..Len(flows.start)
  /\ flows.start[i].pc = "fetch"
  /\ Becomes([Begin("startFails") EXCEPT !.flows.start[i].pc = "wait",
                !.flows.start[i].retried = Watching(World, "retried")])
  /\ UNCHANGED <<phase, clock>>

\* Mutant: startConvInProgress is not cleared when the response is ok.
StartAccepted_flagKept(i) ==
  /\ i \in 1..Len(flows.start)
  /\ flows.start[i].pc = "fetch"
  /\ Becomes([Begin("startAccepted") EXCEPT !.flows.start[i].pc = "json"])
  /\ UNCHANGED <<phase, clock>>

\* startConversation: res.ok -> flag cleared, then await res.json().
StartAccepted(i) ==
  /\ i \in 1..Len(flows.start)
  /\ flows.start[i].pc = "fetch"
  /\ Becomes([Begin("startAccepted") EXCEPT !.flows.start[i].pc = "json",
                !.mem.startConvInProgress = FALSE,
                !.store.startConvInProgress = FALSE])
  /\ UNCHANGED <<phase, clock>>

\* startConversation: res.json() rejects -> catch, wait 2 s.
StartBodyFails(i) ==
  /\ i \in 1..Len(flows.start)
  /\ flows.start[i].pc = "json"
  /\ Becomes([Begin("startBodyFails") EXCEPT !.flows.start[i].pc = "wait",
                !.flows.start[i].retried = Watching(World, "retried")])
  /\ UNCHANGED <<phase, clock>>

\* startConversation: the 2 s timer ends, the loop issues the request again.
StartRetry(i) ==
  /\ i \in 1..Len(flows.start)
  /\ flows.start[i].pc = "wait"
  /\ Becomes(fetch([Begin("startRetry") EXCEPT !.flows.start[i].pc = "fetch"],
                   startRequest))
  /\ UNCHANGED <<phase, clock>>

\* startConversation: res.json() resolves -> lines 180-182.
StartSucceeds(i, id) ==
  /\ i \in 1..Len(flows.start)
  /\ flows.start[i].pc = "json"
  /\ Becomes(getActivities([Begin("startSucceeds") EXCEPT
                !.flows.start = RemoveAt(@, i),
                !.ev.started = <<[conversationId |-> id,
                                  retried |-> flows.start[i].retried]>>,
                !.mem.conversationId = id]))
  /\ UNCHANGED <<phase, clock>>

\* getActivities: fetch rejected, !res.ok or res.json() rejected -> wait 2 s.
PollFails(i) ==
  /\ i \in 1..Len(flows.poll)
  /\ flows.poll[i].pc = "fetch"
  /\ Becomes([Begin("pollFails") EXCEPT !.flows.poll[i].pc = "wait"])
  /\ UNCHANGED <<phase, clock>>

PollRetry(i) ==
  /\ i \in 1..Len(flows.poll)
  /\ flows.poll[i].pc = "wait"
  /\ LET w == [Begin("pollRetry") EXCEPT !.flows.poll[i].pc = "fetch"]
     IN Becomes(fetch(w, pollRequest(w)))
  /\ UNCHANGED <<phase, clock>>

\* getActivities: the response is ok and its body parses to data.
PollSucceeds(i, data) ==
  /\ i \in 1..Len(flows.poll)
  /\ flows.poll[i].pc = "fetch"
  /\ Becomes(routeActivities([Begin("pollSucceeds") EXCEPT
                !.flows.poll = RemoveAt(@, i)], data))
  /\ UNCHANGED <<phase, clock>>

\* The setTimeout callback of processInitialActivities runs.
InitialTimerFires(k) ==
  /\ k \in 1..Len(flows.timers)
  /\ Becomes(processActivities([Begin("initialTimerFires") EXCEPT
                !.flows.timers = RemoveAt(@, k)], flows.timers[k]))
  /\ UNCHANGED <<phase, clock>>

\* Mutant: a failed attempt clears sendInProgress.
SendFails_clearsFlag(i, why) ==
  /\ i \in 1..Len(flows.send)
  /\ flows.send[i].pc = "fetch"
  /\ Becomes([Begin("sendFails") EXCEPT !.flows.send[i].pc = "wait",
                                        !.flows.send[i].error = why,
                                        !.mem.sendInProgress = FALSE,
                                        !.store.sendInProgress = FALSE])
  /\ UNCHANGED <<phase, clock>>

\* sendUserMessage: an attempt ends without an id; every such outcome leads
\* to a 2 s wait and another turn of the loop.
SendFails(i, why) ==
  /\ i \in 1..Len(flows.send)
  /\ flows.send[i].pc = "fetch"
  /\ Becomes([Begin("sendFails") EXCEPT !.flows.send[i].pc = "wait",
                                        !.flows.send[i].error = why])
  /\ UNCHANGED <<phase, clock>>

SendRetry(i) ==
  /\ i \in 1..Len(flows.send)
  /\ flows.send[i].pc = "wait"
  /\ LET w == [Begin("sendRetry") EXCEPT !.flows.send[i].pc = "fetch",
                                         !.flows.send[i].error = "none"]
     IN Becomes(fetch(w, sendRequest(w, flows.send[i].text, flows.send[i].clientSideMsgId)))
  /\ UNCHANGED <<phase, clock>>

\* sendUserMessage: the response carries respData.id.
SendSucceeds(i, id) ==
  /\ i \in 1..Len(flows.send)
  /\ flows.send[i].pc = "fetch"
  /\ LET w == [Begin("sendSucceeds") EXCEPT !.flows.send = RemoveAt(@, i),
                 !.hist.pollOwed = Watching(World, "owed"),
                 !.ev.acked = <<[clientSideMsgId |-> flows.send[i].clientSideMsgId,
                                 id |-> id]>>]
     IN Becomes(finishSend(
          linkUserMessageWithActivityId(w, id, flows.send[i].clientSideMsgId)))
  /\ UNCHANGED <<phase, clock>>

Next ==
  \/ Reload
  \/ InitializeChatbotUi
  \/ \E text \in UserTexts : CollectUserMessage(text)
  \/ \E i \in 1..Len(flows.start) : StartFails(i)
  \/ \E i \in 1..Len(flows.start) : StartAccepted(i)
  \/ \E i \in 1..Len(flows.start) : StartBodyFails(i)
  \/ \E i \in 1..Len(flows.start) : StartRetry(i)
  \/ \E i \in 1..Len(flows.start), id \in ConvIds : StartSucceeds(i, id)
  \/ \E i \in 1..Len(flows.poll) : PollFails(i)
  \/ \E i \in 1..Len(flows.poll) : PollRetry(i)
  \/ \E i \in 1..Len(flows.poll), data \in PollData : PollSucceeds(i, data)
  \/ \E k \in 1..Len(flows.timers) : InitialTimerFires(k)
  \/ \E i \in 1..Len(flows.send), why \in SendFailures : SendFails(i, why)
  \/ \E i \in 1..Len(flows.send) : SendRetry(i)
  \/ \E i \in 1..Len(flows.send), id \in UserActIds : SendSucceeds(i, id)

Spec == Init /\ [][Next]_vars

\* The chatbotInterfaceOpened event fires (the page's own script dispatches
\* it when the user opens the chatbot interface).  Its listener, attached by
\* attachChatbotEventListeners, scrolls the dialogue and adjusts the textarea:
\* it reads and writes none of the script's variables, sessionStorage items
\* or pending callbacks.
ChatbotInterfaceOpened ==
  /\ phase = "running"
  /\ Becomes([Begin("chatbotInterfaceOpened") EXCEPT !.hist.interfaceOpened = TRUE])
  /\ UNCHANGED <<phase, clock>>

\* The steps of the script together with the interface-opened event.
NextUi == Next \/ ChatbotInterfaceOpened
SpecUi == Init /\ [][NextUi]_vars

\* The same steps under the scheduling the start flow relies on: the 2 s
\* timer of a waiting start flow fires (unless the page is reloaded first),
\* and the server does return a successful, well-formed response to a start
\* request that is issued again and again.
InitRetried == FirstLoad /\ hist = [NoHist EXCEPT !.watch = {"retried"}]
FairSpec ==
  /\ InitRetried
  /\ [][Next]_vars
  /\ WF_vars(\E i \in 1..Len(flows.start) : StartRetry(i))
  /\ SF_vars(\E i \in 1..Len(flows.start) : StartAccepted(i))
  /\ SF_vars(\E i \in 1..Len(flows.start), id \in ConvIds : StartSucceeds(i, id))

\* The same steps, with the activity of every dialogueFinishedEvent recorded
\* in ev.notified and hist.notifiedIds.
InitNotified == FirstLoad /\ hist = [NoHist EXCEPT !.watch = {"notified"}]
SpecNotified == InitNotified /\ [][Next]_vars

\* The same steps, with hist.pollOwed recorded.
InitOwed == FirstLoad /\ hist = [NoHist EXCEPT !.watch = {"owed"}]
SpecOwed == InitOwed /\ [][Next]_vars

\* The same steps, with every state written to the 'conversation' item
\* recorded in ev.saved.
InitSaved == FirstLoad /\ hist = [NoHist EXCEPT !.watch = {"saved"}]
SpecSaved == InitSaved /\ [][Next]_vars

(***************************************************************************)
(* Observations used by the properties                                     *)
(***************************************************************************)
HasSnapshot == store.conversation # <<>>
StoredMessages == IF HasSnapshot THEN store.conversation[1].messages ELSE <<>>
StoredProcessed == IF HasSnapshot THEN store.conversation[1].processedActivities ELSE {}
StoredWatermark == IF HasSnapshot THEN store.conversation[1].watermark ELSE NoWatermark

RequestsOf(e, kind) == SelectSeq(e.requests, LAMBDA r : r.kind = kind)

\* Indexes of the user messages of the snapshot that have no activityId.
Unacknowledged ==
  {j \in 1..Len(StoredMessages) :
     StoredMessages[j].from = "user" /\ StoredMessages[j].activityId = Null}

(***************************************************************************)
(* C1. Within one page session, a call of sendUserMessage made while an    *)
(* earlier send flow is in flight (sendInProgress true) issues no send     *)
(* request and starts no flow: at most one send flow is active at a time,  *)
(* and an active send flow keeps sendInProgress true.                      *)
(***************************************************************************)
C1_OneSendFlow ==
  [][/\ Len(flows'.send) <= 1
     /\ flows'.send # <<>> => mem'.sendInProgress
     /\ (flows.send # <<>> /\ ev'.op = "collectUserMessage")
          => (RequestsOf(ev', "send") = <<>> /\ flows'.send = flows.send)]_vars

\* A message was submitted while a send flow (and no poll) was in flight,
\* and nothing was sent for it.
C1_Witness ==
  /\ ev.op = "collectUserMessage"
  /\ ev.requests = <<>>
  /\ Len(flows.send) = 1
  /\ mem.sendInProgress /\ ~mem.pollInProgress
  /\ flows.send[1].clientSideMsgId # clock

(***************************************************************************)
(* C2. In every reachable state sendInProgress and pollInProgress are      *)
(* never both true: a send flow and a poll flow are never in flight at     *)
(* the same time.                                                          *)
(***************************************************************************)
C2_SendPollExclusive ==
  /\ ~(mem.sendInProgress /\ mem.pollInProgress)
  /\ ~(flows.send # <<>> /\ (flows.poll # <<>> \/ flows.timers # <<>>))

(***************************************************************************)
(* C3. When continueChatbotApiRequests runs with pollInProgress and        *)
(* sendInProgress both persisted as true, it invokes only the poll path,   *)
(* does not invoke sendUserMessage, and clears the send flag, so that      *)
(* sendInProgress is false afterwards.                                     *)
(***************************************************************************)
C3_ResumePollClearsSend ==
  [][(/\ phase = "loaded"
      /\ store.pollInProgress /\ store.sendInProgress
      /\ ev'.op = "initializeChatbotUi")
       => /\ RequestsOf(ev', "poll") # <<>>
          /\ RequestsOf(ev', "send") = <<>>
          /\ ~mem'.sendInProgress
          /\ ~store'.sendInProgress]_vars

(***************************************************************************)
(* C4. On every process start, whatever flags are persisted and with or    *)
(* without a stored snapshot, at most one network flow (start, poll or     *)
(* send) is started, chosen in the priority order start, poll, send.       *)
(***************************************************************************)
C4_AtMostOneFlowResumed ==
  ev.op = "initializeChatbotUi" =>
    /\ Len(ev.requests) <= 1
    /\ Len(flows.start) + Len(flows.poll) + Len(flows.send) <= 1

(***************************************************************************)
(* C5. After getActivities received a successful poll response, with or    *)
(* without activities, pollInProgress is cleared (in memory and in the     *)
(* store) as soon as the response is merged: right away, or when the       *)
(* pending timer of processInitialActivities has run.                      *)
(***************************************************************************)
C5_PollFlagClearedAfterSuccess ==
  (ev.op = "pollSucceeds" /\ flows.timers = <<>> /\ flows.poll = <<>>)
    => (~mem.pollInProgress /\ ~store.pollInProgress)

(***************************************************************************)
(* C6. When a send request fails with the ambiguous transport failure      *)
(* (a TypeError naming NetworkError), sendUserMessage stops retrying: the  *)
(* flow issues no further send request for that message.                   *)
(***************************************************************************)
C6_NoRetryAfterNetworkError ==
  [][\A i \in 1..Len(flows.send) :
       flows.send[i].error = "NetworkError" =>
         \A k \in 1..Len(ev'.requests) :
           ~(/\ ev'.op = "sendRetry"
             /\ ev'.requests[k].kind = "send"
             /\ ev'.requests[k].clientSideMsgId = flows.send[i].clientSideMsgId)]_vars

(***************************************************************************)
(* C7. For any sequence of successful polls (with any watermark values in  *)
(* the responses) and reloads, the watermark held in memory and in the     *)
(* persisted snapshot never decreases.  The in-memory value is compared    *)
(* between states of a running page; a reload restores it from the         *)
(* snapshot.                                                               *)
(***************************************************************************)
WatermarkDecreases ==
  \/ StoredWatermark' < StoredWatermark
  \/ (phase = "running" /\ phase' = "running" /\ mem'.watermark < mem.watermark)

RemergeOf(summary) == summary.ids # {} /\ summary.ids \subseteq StoredProcessed

C8_RemergeChangesNothing ==
  [][(ev'.merged # <<>> /\ RemergeOf(ev'.merged[1]))
       => /\ StoredMessages' = StoredMessages
          /\ StoredWatermark' = StoredWatermark
          /\ messagesDiv' = messagesDiv]_vars

\* C8 as amended: such a call leaves the snapshot's messages unchanged and
\* displays no message; the watermark becomes the batch's watermark when the
\* batch carries one and is unchanged otherwise.
C8_RemergeKeepsMessages ==
  [][(ev'.merged # <<>> /\ RemergeOf(ev'.merged[1]))
       => /\ StoredMessages' = StoredMessages
          /\ messagesDiv' = messagesDiv
          /\ StoredProcessed' = StoredProcessed
          /\ StoredWatermark' = (IF ev'.merged[1].watermark # NoWatermark
                                  THEN ev'.merged[1].watermark
                                  ELSE mem.watermark)
          /\ mem'.watermark = StoredWatermark']_vars

\* A batch of two message activities, a chatbot's and a user's, both merged
\* before, has just been merged again.
C8_Witness ==
  /\ ev.merged # <<>>
  /\ ev.merged[1].ids \cap BotActIds # {}
  /\ ev.merged[1].ids \cap UserActIds # {}
  /\ ev.merged[1].ids \subseteq StoredProcessed
  /\ Len(StoredMessages) = Cardinality(StoredProcessed)
  /\ Len(messagesDiv) = Len(StoredMessages)

(***************************************************************************)
(* C9. After a send for clientSideMsgId m succeeded with response id A,    *)
(* the snapshot's user message with clientSideMsgId m has activityId A     *)
(* and A is in processedActivities.                                        *)
(***************************************************************************)
C9_SendLinksMessage ==
  ev.acked # <<>> =>
    /\ \E j \in 1..Len(StoredMessages) :
         /\ StoredMessages[j].from = "user"
         /\ StoredMessages[j].clientSideMsgId = ev.acked[1].clientSideMsgId
    /\ \A j \in 1..Len(StoredMessages) :
         (/\ StoredMessages[j].from = "user"
          /\ StoredMessages[j].clientSideMsgId = ev.acked[1].clientSideMsgId)
           => StoredMessages[j].activityId = ev.acked[1].id
    /\ ev.acked[1].id \in StoredProcessed

\* The second user message of the snapshot has just been acknowledged, after
\* the first one was.
C9_Witness ==
  /\ ev.acked # <<>>
  /\ Len(StoredMessages) >= 2
  /\ \E j \in 2..Len(StoredMessages) :
       /\ StoredMessages[j].clientSideMsgId = ev.acked[1].clientSideMsgId
       /\ StoredMessages[j].activityId = ev.acked[1].id
       /\ StoredMessages[1].from = "user"
       /\ StoredMessages[1].activityId \notin {Null, ev.acked[1].id}

(***************************************************************************)
(* C10. In every reachable state at most one user message of the           *)
(* persisted snapshot has activityId null.                                 *)
(***************************************************************************)
C10_AtMostOneUnacknowledged == Cardinality(Unacknowledged) <= 1

\* C10 as amended: at most one user message of the snapshot that a send
\* request has carried has activityId null; every other user message without
\* activityId was dropped when it was submitted (no request ever carried it).
C10_AtMostOneSentUnacknowledged ==
  Cardinality({j \in Unacknowledged : StoredMessages[j].clientSideMsgId \in sentIds}) <= 1

\* Two user messages have no activityId: one is being sent, the other was
\* dropped.
C10_Witness ==
  /\ Cardinality(Unacknowledged) = 2
  /\ Cardinality({j \in Unacknowledged : StoredMessages[j].clientSideMsgId \in sentIds}) = 1
  /\ flows.send # <<>>

(***************************************************************************)
(* C11. In every state written to the 'conversation' item, including the   *)
(* intermediate one written inside processActivities before a user         *)
(* activity is linked, processedActivities contains every activityId that  *)
(* is not null on a message of messages.                                   *)
(***************************************************************************)
ProcessedCoversLinked(state) ==
  \A j \in 1..Len(state.messages) :
    state.messages[j].activityId # Null =>
      state.messages[j].activityId \in state.processedActivities

C11_ProcessedCoversLinked ==
  /\ \A k \in 1..Len(ev.saved) : ProcessedCoversLinked(ev.saved[k])
  /\ HasSnapshot => ProcessedCoversLinked(store.conversation[1])

\* A merge of a chatbot activity followed by a user activity: the state
\* written in between has the chatbot activity processed and its message not
\* yet appended, the next one has the user message linked, the last one has
\* the chatbot message.
C11_Witness ==
  /\ ev.merged # <<>>
  /\ Len(ev.saved) = 3
  /\ ev.saved[1].processedActivities \cap BotActIds # {}
  /\ \A j \in 1..Len(ev.saved[1].messages) : ev.saved[1].messages[j].activityId = Null
  /\ \E j \in 1..Len(ev.saved[2].messages) :
       ev.saved[2].messages[j].activityId \in UserActIds
  /\ Len(ev.saved[3].messages) = Len(ev.saved[1].messages) + 1
  /\ store.conversation = <<ev.saved[3]>>

(***************************************************************************)
(* C12. Once a terminal-state signal has been observed (finalStateReached  *)
(* is true, in memory or persisted), no step issues a send request, in the *)
(* same page session or after a reload.                                    *)
(***************************************************************************)
C12_NoSendAfterFinalState ==
  [][(mem.finalStateReached \/ store.finalStateReached)
       => RequestsOf(ev', "send") = <<>>]_vars

(***************************************************************************)
(* C13. When continueChatbotApiRequests runs with only sendInProgress      *)
(* persisted as true: if the snapshot holds a user message with the        *)
(* persisted clientSideMsgId whose activityId is null, exactly one request *)
(* is issued, a send request with that message's text and id, and the send *)
(* flow is running; otherwise no request is issued and sendInProgress is   *)
(* false afterwards, in memory and persisted.                              *)
(***************************************************************************)
PendingMessages ==
  {j \in 1..Len(StoredMessages) :
     /\ StoredMessages[j].from = "user"
     /\ StoredMessages[j].clientSideMsgId = store.clientSideMsgId}

C13_ResumeSend ==
  [][(/\ phase = "loaded"
      /\ store.sendInProgress /\ ~store.pollInProgress /\ ~store.startConvInProgress
      /\ ev'.op = "initializeChatbotUi")
       => IF \E j \in PendingMessages : StoredMessages[j].activityId = Null
          THEN /\ Len(ev'.requests) = 1
               /\ ev'.requests[1].kind = "send"
               /\ ev'.requests[1].clientSideMsgId = store.clientSideMsgId
               /\ \E j \in PendingMessages : ev'.requests[1].text = StoredMessages[j].text
               /\ Len(flows'.send) = 1
               /\ mem'.sendInProgress /\ store'.sendInProgress
          ELSE /\ ev'.requests = <<>>
               /\ flows' = NoFlows
               /\ ~mem'.sendInProgress /\ ~store'.sendInProgress]_vars

\* The page was loaded with only sendInProgress persisted and the pending
\* message, the second of the snapshot, was sent again.
C13_Witness ==
  /\ ev.op = "initializeChatbotUi"
  /\ Len(ev.requests) = 1
  /\ ev.requests[1].kind = "send"
  /\ ev.requests[1].clientSideMsgId = store.clientSideMsgId
  /\ Len(StoredMessages) >= 2
  /\ \E j \in 2..Len(StoredMessages) :
       /\ StoredMessages[j].clientSideMsgId = store.clientSideMsgId
       /\ StoredMessages[j].activityId = Null

(***************************************************************************)
(* C14. For a poll flow whose request failed and was issued again, the     *)
(* successful response is merged exactly once (by processActivities, right *)
(* away or through the pending timer of processInitialActivities), the     *)
(* merge uses that response only, and no chatbot activity is displayed or  *)
(* appended to messages more than once.                                    *)
(***************************************************************************)
BotMessages(messages) ==
  {j \in 1..Len(messages) : messages[j].from = "bot"}

NoActivityTwice(messages) ==
  \A j, k \in BotMessages(messages) :
    messages[j].activityId = messages[k].activityId => j = k

C14_OneMergeAfterRetries ==
  [][(ev.op = "pollRetry" /\ ev'.op = "pollSucceeds")
       => /\ Len(ev'.merged) + (Len(flows'.timers) - Len(flows.timers)) = 1
          /\ NoActivityTwice(StoredMessages')
          /\ Len(StoredMessages') - Len(StoredMessages)
               = Len(messagesDiv') - Len(messagesDiv)
          /\ \A j \in (Len(StoredMessages) + 1)..Len(StoredMessages') :
               /\ StoredMessages'[j].activityId \in ev'.merged[1].ids
               /\ StoredMessages'[j].activityId \notin StoredProcessed]_vars

(***************************************************************************)
(* C15. A user message submitted while sendInProgress or pollInProgress is *)
(* true is appended to the snapshot, and no send request ever carries its  *)
(* clientSideMsgId: not later in the page session and not by the           *)
(* resumption after a reload.                                              *)
(***************************************************************************)
C15_DroppedNeverSent ==
  /\ hist.droppedIds \cap sentIds = {}
  /\ \A m \in hist.droppedIds :
       \E j \in 1..Len(StoredMessages) :
         /\ StoredMessages[j].from = "user"
         /\ StoredMessages[j].clientSideMsgId = m
         /\ StoredMessages[j].activityId = Null

\* A message was dropped while another one was being sent; the page was
\* reloaded and the resumption has sent the other one again.
C15_Witness ==
  /\ hist.droppedIds # {}
  /\ ev.op = "initializeChatbotUi"
  /\ RequestsOf(ev, "send") # <<>>
  /\ store.clientSideMsgId \notin hist.droppedIds

(***************************************************************************)
(* C16. The activities of the first poll (the chatbot's welcome message)   *)
(* are not merged into the snapshot and not displayed before the           *)
(* chatbotInterfaceOpened event has occurred: as long as it has not, no    *)
(* response has been merged and no chatbot message is in the snapshot or   *)
(* on display.                                                             *)
(***************************************************************************)
C16_WelcomeAfterInterfaceOpened ==
  ~hist.interfaceOpened =>
    /\ ev.merged = <<>>
    /\ BotMessages(StoredMessages) = {}
    /\ BotMessages(messagesDiv) = {}

(***************************************************************************)
(* C17. startConversation issues the start request again after every       *)
(* failed one, without limit, and, if the server eventually returns a      *)
(* successful well-formed response, the flow ends (unless the page is      *)
(* reloaded first) with startConvInProgress cleared, conversationId set to *)
(* the returned value and getActivities called once: it issues at most one *)
(* poll request and pollInProgress is true.                                *)
(***************************************************************************)
StartFlowEnded ==
  /\ ev.op = "startSucceeds"
  /\ flows.start = <<>>
  /\ ~mem.startConvInProgress /\ ~store.startConvInProgress
  /\ Len(ev.started) = 1
  /\ mem.conversationId = ev.started[1].conversationId
  /\ mem.pollInProgress
  /\ Len(RequestsOf(ev, "poll")) <= 1
  /\ \A k \in 1..Len(ev.requests) :
       /\ ev.requests[k].kind = "poll"
       /\ ev.requests[k].conversationId = ev.started[1].conversationId

C17_StartRetriesUntilSuccess ==
  /\ [][/\ ev'.op \in {"startFails", "startBodyFails"} =>
            (flows'.start # <<>> /\ \A i \in 1..Len(flows'.start) : flows'.start[i].pc = "wait")
        /\ ev'.op = "startRetry" =>
            (ev'.requests = <<startRequest>> /\ Len(flows'.start) = Len(flows.start))]_vars
  /\ (flows.start # <<>>) ~> (StartFlowEnded \/ ev.op = "load")

\* A start flow whose requests had failed has ended with a conversationId,
\* and the first poll request has been issued with it.
C17_Witness ==
  /\ StartFlowEnded
  /\ ev.started[1].retried
  /\ RequestsOf(ev, "poll") # <<>>

(***************************************************************************)
(* C18. Once the conversationId of the persisted snapshot is not null, no  *)
(* step changes it: not a start, a poll, a send or a reload.               *)
(***************************************************************************)
StoredConversationId ==
  IF HasSnapshot THEN store.conversation[1].conversationId ELSE Null

C18_ConversationIdImmutable ==
  [][StoredConversationId # Null => StoredConversationId' = StoredConversationId]_vars

\* After a reload the conversationId was restored from the snapshot and the
\* interrupted poll was issued again with it.
C18_Witness ==
  /\ ev.op = "initializeChatbotUi"
  /\ StoredConversationId # Null
  /\ mem.conversationId = StoredConversationId
  /\ Len(ev.requests) = 1
  /\ ev.requests[1].kind = "poll"
  /\ ev.requests[1].conversationId = StoredConversationId

(***************************************************************************)
(* C19. For every activity id that carries the terminal-state signal       *)
(* (finalState), from the chatbot or from the user, dialogueFinishedEvent  *)
(* is dispatched exactly once over any sequence of polls and reloads: a    *)
(* merge dispatches it for no id it was dispatched for before, not twice   *)
(* for one id, and every such id of a merged response has had its event.   *)
(***************************************************************************)
C19_NotifiedExactlyOnce ==
  [][/\ \A k \in 1..Len(ev'.notified) : ev'.notified[k] \notin hist.notifiedIds
     /\ \A j, k \in 1..Len(ev'.notified) : ev'.notified[j] = ev'.notified[k] => j = k
     /\ \A m \in 1..Len(ev'.merged) :
          \A id \in ev'.merged[m].ids \cap FinalActIds : id \in hist'.notifiedIds]_vars

(***************************************************************************)
(* C20. A call of getActivities made while pollInProgress is true (by      *)
(* startConversation or sendUserMessage at their end) issues no poll       *)
(* request and changes nothing: the poll flows, the pending timers, the    *)
(* flag and, for startConversation, the whole sessionStorage and display   *)
(* stay as they were.  So within a page session at most one poll flow      *)
(* (request loop or pending buffered merge) is active at any time, and     *)
(* pollInProgress is true while it is.                                     *)
(***************************************************************************)
C20_OnePollFlow ==
  [][/\ Len(flows'.poll) + Len(flows'.timers) <= 1
     /\ (flows'.poll # <<>> \/ flows'.timers # <<>>) => mem'.pollInProgress
     /\ (mem.pollInProgress /\ ev'.op \in {"startSucceeds", "sendSucceeds"})
          => /\ RequestsOf(ev', "poll") = <<>>
             /\ flows'.poll = flows.poll
             /\ flows'.timers = flows.timers
             /\ mem'.pollInProgress /\ store'.pollInProgress = store.pollInProgress
             /\ mem'.watermark = mem.watermark
     /\ (mem.pollInProgress /\ ev'.op = "startSucceeds")
          => /\ store' = store
             /\ messagesDiv' = messagesDiv
             /\ ev'.requests = <<>>]_vars

\* startConversation has ended and called getActivities while a poll flow
\* was in flight: nothing was issued and that flow is still the only one.
C20_Witness ==
  /\ ev.op = "startSucceeds"
  /\ ev.requests = <<>>
  /\ mem.conversationId # Null
  /\ Len(flows.poll) = 1
  /\ flows.timers = <<>>
  /\ mem.pollInProgress

(***************************************************************************)
(* C21. Every send flow that ends with a server-assigned id is followed by *)
(* a poll request issued after that send completed, before any further     *)
(* send request is issued: while a poll request is owed to a completed     *)
(* send, no step issues a send request.                                    *)
(***************************************************************************)
C21_PollBeforeNextSend ==
  [][hist.pollOwed => RequestsOf(ev', "send") = <<>>]_vars

(***************************************************************************)
(* C22. While a send flow receives only "in_progress" responses, statuses  *)
(* that are not ok, malformed bodies or transport failures, sendInProgress *)
(* stays true, the snapshot and the rest of sessionStorage are unchanged,  *)
(* no poll is triggered, and every request issued again carries the text   *)
(* and the clientSideMsgId of the message being sent.                      *)
(***************************************************************************)
C22_FailedSendChangesNothing ==
  [][/\ ev'.op \in {"sendFails", "sendRetry"} =>
          /\ store' = store
          /\ mem' = mem
          /\ messagesDiv' = messagesDiv
          /\ mem'.sendInProgress /\ store'.sendInProgress
          /\ Len(flows'.send) = 1
          /\ flows'.poll = flows.poll /\ flows'.timers = flows.timers
          /\ RequestsOf(ev', "poll") = <<>>
     /\ ev'.op = "sendFails" => ev'.requests = <<>>
     /\ ev'.op = "sendRetry" =>
          /\ Len(ev'.requests) = 1
          /\ ev'.requests[1].kind = "send"
          /\ ev'.requests[1].clientSideMsgId = store.clientSideMsgId
          /\ PendingMessages # {}
          /\ \A j \in PendingMessages : ev'.requests[1].text = StoredMessages[j].text]_vars

\* The second message of the snapshot, whose text differs from the first
\* one's, has been sent again after a failed attempt.
C22_Witness ==
  /\ ev.op = "sendRetry"
  /\ Len(ev.requests) = 1
  /\ ev.requests[1].text = "bye"
  /\ ev.requests[1].clientSideMsgId = store.clientSideMsgId
  /\ \E j \in 1..Len(StoredMessages) :
       /\ StoredMessages[j].from = "user"
       /\ StoredMessages[j].text = "hi"
       /\ StoredMessages[j].activityId # Null
  /\ mem.sendInProgress

(***************************************************************************)
(* C23. Every poll request and every send request that is issued carries a *)
(* conversationId that is not null, the requests issued by the resumption  *)
(* after a reload included.                                                *)
(***************************************************************************)
C23_RequestsCarryConversationId ==
  \A k \in 1..Len(ev.requests) :
    ev.requests[k].kind \in {"poll", "send"} => ev.requests[k].conversationId # Null

(***************************************************************************)
(* C24. After initializeChatbotUi has run, whenever the in-memory          *)
(* conversationId is null a start flow is active.                          *)
(***************************************************************************)
C24_StartFlowWhileNoConversation ==
  (phase = "running" /\ mem.conversationId = Null) => flows.start # <<>>

(***************************************************************************)
(* C25. Once a user message of the snapshot has an activityId that is not  *)
(* null, no step changes that activityId.                                  *)
(***************************************************************************)
C25_ActivityIdImmutable ==
  [][\A j \in 1..Len(StoredMessages) :
       (StoredMessages[j].from = "user" /\ StoredMessages[j].activityId # Null)
         => /\ j <= Len(StoredMessages')
            /\ StoredMessages'[j].activityId = StoredMessages[j].activityId]_vars

(***************************************************************************)
(* C26. The persisted messages list is append-only: in every step, and in  *)
(* every state a step writes to the 'conversation' item on the way, the    *)
(* messages stored before are still there, in the same places (a user      *)
(* message may have received its activityId); and every new chatbot        *)
(* message of a merged batch is in the list after the merge.               *)
(***************************************************************************)
SameMessage(a, b) ==
  /\ a.text = b.text
  /\ a.from = b.from
  /\ a.clientSideMsgId = b.clientSideMsgId
  /\ a.from = "bot" => a.activityId = b.activityId

Extends(old, new) ==
  /\ Len(new) >= Len(old)
  /\ \A j \in 1..Len(old) : SameMessage(old[j], new[j])

C26_MessagesAppendOnly ==
  [][/\ Extends(StoredMessages, StoredMessages')
     /\ \A k \in 1..Len(ev'.saved) :
          /\ Extends(StoredMessages, ev'.saved[k].messages)
          /\ k > 1 => Extends(ev'.saved[k - 1].messages, ev'.saved[k].messages)
     /\ \A m \in 1..Len(ev'.merged) :
          \A id \in (ev'.merged[m].ids \cap BotActIds) \ StoredProcessed :
            \E j \in (Len(StoredMessages) + 1)..Len(StoredMessages') :
              /\ StoredMessages'[j].from = "bot"
              /\ StoredMessages'[j].activityId = id]_vars

\* A batch with a new chatbot activity and then a user activity was merged
\* into a snapshot of two messages: the chatbot message, pending while the
\* state was written and read again for the user activity, is the third.
C26_Witness ==
  /\ Len(ev.merged) = 1
  /\ Len(ev.saved) = 3
  /\ Len(ev.saved[1].messages) = 2
  /\ Len(ev.saved[2].messages) = 2
  /\ Len(StoredMessages) = 3
  /\ StoredMessages[3].from = "bot"
  /\ StoredMessages[3].activityId \in ev.merged[1].ids
  /\ StoredMessages[3].activityId \in ev.saved[1].processedActivities
  /\ \E j \in 1..2 : /\ StoredMessages[j].from = "user"
                      /\ StoredMessages[j].activityId \in ev.merged[1].ids
                      /\ ev.saved[1].messages[j].activityId # StoredMessages[j].activityId

====
